---- MODULE Spec2Model ----
(***************************************************************************)
(* MeeTrans (src/main.py): one run of the transcription pipeline.          *)
(*   transcribe():  classify the input by extension, convert a video to    *)
(*   mp3 with ffmpeg, read the prompt file, call the Whisper engine, then  *)
(*   save_transcription() writes one line per lazily yielded segment.      *)
(* Strings are sequences of one-character strings, the file system is a    *)
(* function from paths to file contents, times are tenths of a second.     *)
(***************************************************************************)
EXTENDS Integers, Sequences, FiniteSets, TLC

\* ------------------------------------------------------------------ bounds
\* longest segment stream the engine yields before it must stop or fail
MaxSegments == 2
\* format_timestamp is swept over 0..MaxSeconds and over the same window
\* placed just below the 100 hour mark
MaxSeconds == 3700

\* ------------------------------------------------------------- primitives
\* None, and the content of a file that does not exist; both are kept
\* apart from every string by holding a whole word as one character
None == <<"None">>
Absent == <<"Absent">>

\* str.lower() on the characters that occur in the paths below
LowerChar(c) ==
  CASE c = "M" -> "m" [] c = "P" -> "p" [] c = "K" -> "k" [] c = "V" -> "v"
    [] c = "O" -> "o" [] c = "A" -> "a" [] c = "I" -> "i" [] OTHER -> c

Lower(s) == [i \in 1..Len(s) |-> LowerChar(s[i])]

\* str.rfind of a single character, 1-based, 0 when absent
RFind(p, c) ==
  LET hits == {i \in 1..Len(p) : p[i] = c}
  IN IF hits = {} THEN 0 ELSE CHOOSE i \in hits : \A j \in hits : j <= i

\* os.path.splitext: the extension starts at the last dot of the last
\* path component; leading dots of that component do not start one
splitext(p) ==
  LET sepIndex == RFind(p, "/")
      dotIndex == RFind(p, ".")
  IN IF dotIndex > sepIndex
        /\ \E i \in (sepIndex + 1)..(dotIndex - 1) : p[i] # "."
     THEN <<SubSeq(p, 1, dotIndex - 1), SubSeq(p, dotIndex, Len(p))>>
     ELSE <<p, <<>> >>

\* the extension list of transcribe()
VideoExts ==
  { <<".", "m", "p", "4">>, <<".", "m", "k", "v">>,
    <<".", "m", "o", "v">>, <<".", "a", "v", "i">> }

\* mutation of IsVideo: the extension is compared without lower()
IsVideoCaseSensitive(path) == splitext(path)[2] \in VideoExts

\* ext = os.path.splitext(self.input_file)[1].lower(); ext in [...]
IsVideo(path) == Lower(splitext(path)[2]) \in VideoExts

\* audio_file = f"{os.path.splitext(self.input_file)[0]}.mp3"
AudioPath(path) == splitext(path)[1] \o <<".", "m", "p", "3">>

\* `if self.prompt_file:` is false for None and for the empty string
PromptGiven(p) == p # None /\ p # <<>>

\* ------------------------------------------------------ format_timestamp
DigitChar(d) == <<"0", "1", "2", "3", "4", "5", "6", "7", "8", "9">>[d + 1]

RECURSIVE Digits(_)
Digits(n) ==
  IF n < 10 THEN <<DigitChar(n)>>
  ELSE Digits(n \div 10) \o <<DigitChar(n % 10)>>

\* the format spec `:02`: at least two characters, zero padded
Pad2(n) ==
  IF n < 0 THEN <<"-">> \o Digits(-n)
  ELSE IF n < 10 THEN <<"0">> \o Digits(n)
  ELSE Digits(n)

\* int(seconds) for a time held in tenths of a second: toward zero
TruncTenths(t) == IF t >= 0 THEN t \div 10 ELSE -((-t) \div 10)

\* mutation of format_timestamp: the hours field wraps at 100
format_timestamp_wraps(t) ==
  LET seconds == TruncTenths(t)
      hours == (seconds \div 3600) % 100
      minutes == (seconds % 3600) \div 60
      sec == seconds % 60
  IN Pad2(hours) \o <<":">> \o Pad2(minutes) \o <<":">> \o Pad2(sec)

\* mutation of format_timestamp: the time is rounded, not truncated
format_timestamp_rounds(t) ==
  LET seconds == (t + 5) \div 10
      hours == seconds \div 3600
      minutes == (seconds % 3600) \div 60
      sec == seconds % 60
  IN Pad2(hours) \o <<":">> \o Pad2(minutes) \o <<":">> \o Pad2(sec)

format_timestamp(t) ==
  LET seconds == TruncTenths(t)
      hours == seconds \div 3600
      minutes == (seconds % 3600) \div 60
      sec == seconds % 60
  IN Pad2(hours) \o <<":">> \o Pad2(minutes) \o <<":">> \o Pad2(sec)

\* the string handed to f.write for one segment
FormatLine(seg, ts) ==
  IF ts
  THEN <<"[">> \o format_timestamp(seg.start) \o <<" ", "-", ">", " ">>
       \o format_timestamp(seg.end) \o <<"]", " ">> \o seg.text \o <<"\n">>
  ELSE seg.text \o <<"\n">>

\* ------------------------------------------------------------ file system
\* mutation of OpenForWrite: mode "a", existing content is kept
OpenForAppend(f, path) ==
  [f EXCEPT ![path] = IF @ = Absent THEN <<>> ELSE @]

\* mutation of OpenForWrite: the file is only created by the first write
OpenLazily(f, path) == f

\* open(path, "w"): the file exists and is empty afterwards
OpenForWrite(f, path) == [f EXCEPT ![path] = <<>>]

\* buffered text reaching the file
WriteThrough(f, path, text) ==
  IF text = <<>> THEN f
  ELSE [f EXCEPT ![path] = IF @ = Absent THEN text ELSE @ \o text]

\* ------------------------------------------------------------ run inputs
\* the positional input_file argument
InputFiles ==
  { <<"a", ".", "m", "p", "4">>, <<"a", ".", "M", "K", "V">>,
    <<"a", ".", "M", "o", "v">>, <<"a", ".", "b", ".", "A", "V", "I">>,
    <<"a", ".", "m", "p", "3">>, <<"a">>, <<".", "m", "p", "4">>,
    <<"d", ".", "m", "k", "v", "/", "a">>, <<"a", ".", "m", "p", "4", "x">> }

\* the --output argument; a.mp3 is also where a.mp4 is extracted to
OutputFiles == { <<"o", ".", "t", "x", "t">>, <<"a", ".", "m", "p", "3">> }

\* the --prompt argument: not given, the empty string, or a path
PromptFiles == { None, <<>>, <<"p", ".", "t", "x", "t">> }

\* every path a run can touch
Paths ==
  InputFiles \cup OutputFiles \cup (PromptFiles \ {None, <<>>})
    \cup {AudioPath(p) : p \in InputFiles}

\* file contents: the media of the input, what ffmpeg extracts, what a
\* failed ffmpeg may leave behind, an earlier transcript, a prompt text
Media == <<"#">>
Extracted == <<"#", "3">>
PartialAudio == <<"#", "?">>
OldTranscript == <<"o", "l", "d", "\n">>
PromptText == <<"t">>

\* segments the engine can yield: start and end in tenths of a second
Segments ==
  { [start |-> 0, end |-> 15, text |-> <<" ", "k">>],
    [start |-> 15, end |-> 32, text |-> <<"s", " ">>],
    [start |-> 3599999, end |-> 3600610, text |-> <<>>] }

\* the second counts format_timestamp is swept over
SecondCounts == (0..MaxSeconds) \cup {356400 + k : k \in 0..MaxSeconds}

\* ------------------------------------------------------------------ state
VARIABLES
  input_file,      \* self.input_file
  output_file,     \* self.output_file
  timestamp,       \* self.timestamp
  prompt_file,     \* self.prompt_file
  audio_file,      \* self.audio_file
  initial_prompt,  \* local of transcribe()
  pc,              \* position of the run
  error,           \* the exception that ended the run, or None
  fs,              \* files on disk: path -> content or Absent
  fs0,             \* the files on disk when the run started
  buf,             \* text written to f that has not reached the disk
  segment,         \* loop variable of save_transcription, <<>> if unbound
  yielded,         \* segments the engine has yielded so far
  trace,           \* stage events in the order they happened
  engine_call,     \* the calls of whisper_model.transcribe, with arguments
  fmt_arg,         \* argument of a lone format_timestamp call
  fmt_ret          \* its return value

vars ==
  << input_file, output_file, timestamp, prompt_file, audio_file,
     initial_prompt, pc, error, fs, fs0, buf, segment, yielded, trace,
     engine_call, fmt_arg, fmt_ret >>

config == <<input_file, output_file, timestamp, prompt_file>>

\* the files a run starts with: the input exists, the output, the
\* extraction target and the prompt file may or may not
InitialFiles(inp, out, pr) ==
  { [p \in Paths |->
       IF p = inp THEN Media
       ELSE IF p = out THEN oc
       ELSE IF IsVideo(inp) /\ p = AudioPath(inp) THEN ac
       ELSE IF p = pr THEN pt
       ELSE Absent] :
    oc \in {Absent, <<>>, OldTranscript},
    ac \in {Absent, Extracted},
    pt \in {Absent, PromptText} }

\* MeeTrans.__init__
Init ==
  /\ input_file \in InputFiles
  /\ output_file \in OutputFiles
  /\ timestamp \in BOOLEAN
  /\ prompt_file \in PromptFiles
  /\ audio_file = None
  /\ initial_prompt = None
  /\ pc = "start"
  /\ error = None
  /\ fs \in InitialFiles(input_file, output_file, prompt_file)
  /\ fs0 = fs
  /\ buf = <<>>
  /\ segment = <<>>
  /\ yielded = <<>>
  /\ trace = <<>>
  /\ engine_call = <<>>
  /\ fmt_arg = 0
  /\ fmt_ret = <<>>

\* an uncaught exception ends the run
Raise(e) ==
  /\ pc' = "aborted"
  /\ error' = e

\* ------------------------------------------------- transcribe(): classify
\* a video input: convert_video_to_audio() starts ffmpeg
StartConversion ==
  /\ pc = "start"
  /\ IsVideo(input_file)
  /\ pc' = "converting"
  /\ trace' = Append(trace, "convert_begin")
  /\ UNCHANGED << config, audio_file, initial_prompt, error, fs, fs0, buf,
                  segment, yielded, engine_call, fmt_arg, fmt_ret >>

\* any other input is handed on as it is
PassThrough ==
  /\ pc = "start"
  /\ ~IsVideo(input_file)
  /\ audio_file' = input_file
  /\ pc' = "prompt"
  /\ UNCHANGED << config, initial_prompt, error, fs, fs0, buf, segment,
                  yielded, trace, engine_call, fmt_arg, fmt_ret >>

\* ffmpeg exits 0: the audio file is (over)written, -y
ConvertOk ==
  /\ pc = "converting"
  /\ fs' = [fs EXCEPT ![AudioPath(input_file)] = Extracted]
  /\ audio_file' = AudioPath(input_file)
  /\ pc' = "prompt"
  /\ trace' = Append(trace, "convert_end")
  /\ UNCHANGED << config, initial_prompt, error, fs0, buf, segment,
                  yielded, engine_call, fmt_arg, fmt_ret >>

\* mutation of ConvertFail: check=False, the exit status is ignored
ConvertFailIgnored ==
  /\ pc = "converting"
  /\ fs' \in {fs, [fs EXCEPT ![AudioPath(input_file)] = PartialAudio]}
  /\ audio_file' = AudioPath(input_file)
  /\ pc' = "prompt"
  /\ trace' = Append(trace, "convert_failed")
  /\ UNCHANGED << config, initial_prompt, error, fs0, buf, segment,
                  yielded, engine_call, fmt_arg, fmt_ret >>

\* ffmpeg exits non-zero: check=True raises CalledProcessError; what
\* the tool did to its output file before it gave up is its own affair
ConvertFail ==
  /\ pc = "converting"
  /\ fs' \in {fs, [fs EXCEPT ![AudioPath(input_file)] = PartialAudio]}
  /\ Raise("CalledProcessError")
  /\ trace' = Append(trace, "convert_failed")
  /\ UNCHANGED << config, audio_file, initial_prompt, fs0, buf, segment,
                  yielded, engine_call, fmt_arg, fmt_ret >>

\* --------------------------------------------------- transcribe(): prompt
\* no prompt path: initial_prompt stays None
SkipPrompt ==
  /\ pc = "prompt"
  /\ ~PromptGiven(prompt_file)
  /\ pc' = "engine"
  /\ UNCHANGED << config, audio_file, initial_prompt, error, fs, fs0, buf,
                  segment, yielded, trace, engine_call, fmt_arg, fmt_ret >>

\* open(self.prompt_file, "r") succeeded
OpenPrompt ==
  /\ pc = "prompt"
  /\ PromptGiven(prompt_file)
  /\ fs[prompt_file] # Absent
  /\ pc' = "reading"
  /\ trace' = Append(trace, "prompt_begin")
  /\ UNCHANGED << config, audio_file, initial_prompt, error, fs, fs0, buf,
                  segment, yielded, engine_call, fmt_arg, fmt_ret >>

\* open() failed: the file is missing or may not be read
OpenPromptFail ==
  /\ pc = "prompt"
  /\ PromptGiven(prompt_file)
  /\ Raise("PromptError")
  /\ trace' = Append(trace, "prompt_failed")
  /\ UNCHANGED << config, audio_file, initial_prompt, fs, fs0, buf,
                  segment, yielded, engine_call, fmt_arg, fmt_ret >>

\* f.read() returned the whole file
ReadPrompt ==
  /\ pc = "reading"
  /\ initial_prompt' = fs[prompt_file]
  /\ pc' = "engine"
  /\ trace' = Append(trace, "prompt_end")
  /\ UNCHANGED << config, audio_file, error, fs, fs0, buf, segment,
                  yielded, engine_call, fmt_arg, fmt_ret >>

\* mutation of ReadPromptFail: the output is opened before the prompt is
\* read, so the failure comes after the truncation
ReadPromptFailAfterOpen ==
  /\ pc = "reading"
  /\ fs' = OpenForWrite(fs, output_file)
  /\ Raise("PromptError")
  /\ trace' = Append(trace, "prompt_failed")
  /\ UNCHANGED << config, audio_file, initial_prompt, fs0, buf, segment,
                  yielded, engine_call, fmt_arg, fmt_ret >>

\* f.read() failed: the bytes are not UTF-8
ReadPromptFail ==
  /\ pc = "reading"
  /\ Raise("PromptError")
  /\ trace' = Append(trace, "prompt_failed")
  /\ UNCHANGED << config, audio_file, initial_prompt, fs, fs0, buf,
                  segment, yielded, engine_call, fmt_arg, fmt_ret >>

\* --------------------------------------------------- transcribe(): engine
\* self.whisper_model.transcribe(self.audio_file, ...) is called
EngineCall ==
  /\ pc = "engine"
  /\ engine_call' =
       Append(engine_call,
              [audio |-> audio_file, initial_prompt |-> initial_prompt])
  /\ pc' = "transcribing"
  /\ trace' = Append(trace, "engine_begin")
  /\ UNCHANGED << config, audio_file, initial_prompt, error, fs, fs0, buf,
                  segment, yielded, fmt_arg, fmt_ret >>

\* the call returns the lazy segment generator
EngineReturn ==
  /\ pc = "transcribing"
  /\ pc' = "open"
  /\ trace' = Append(trace, "engine_end")
  /\ UNCHANGED << config, audio_file, initial_prompt, error, fs, fs0, buf,
                  segment, yielded, engine_call, fmt_arg, fmt_ret >>

\* the call itself raises: unsupported format, corrupt audio, no memory
EngineFail ==
  /\ pc = "transcribing"
  /\ Raise("EngineError")
  /\ trace' = Append(trace, "engine_failed")
  /\ UNCHANGED << config, audio_file, initial_prompt, fs, fs0, buf,
                  segment, yielded, engine_call, fmt_arg, fmt_ret >>

\* ------------------------------------------------------ save_transcription
\* with open(self.output_file, "w", encoding="utf-8") as f
OpenOutput ==
  /\ pc = "open"
  /\ fs' = OpenForWrite(fs, output_file)
  /\ buf' = <<>>
  /\ pc' = "iter"
  /\ trace' = Append(trace, "open")
  /\ UNCHANGED << config, audio_file, initial_prompt, error, fs0, segment,
                  yielded, engine_call, fmt_arg, fmt_ret >>

\* open() raises: no permission, the path is a directory
OpenOutputFail ==
  /\ pc = "open"
  /\ Raise("OutputError")
  /\ trace' = Append(trace, "open_failed")
  /\ UNCHANGED << config, audio_file, initial_prompt, fs, fs0, buf,
                  segment, yielded, engine_call, fmt_arg, fmt_ret >>

\* `for segment in segments`: the generator yields its next segment
NextSegment ==
  /\ pc = "iter"
  /\ Len(yielded) < MaxSegments
  /\ \E seg \in Segments :
       /\ segment' = <<seg>>
       /\ yielded' = Append(yielded, seg)
  /\ pc' = "body"
  /\ UNCHANGED << config, audio_file, initial_prompt, error, fs, fs0, buf,
                  trace, engine_call, fmt_arg, fmt_ret >>

\* the generator raises instead of yielding; leaving the with block
\* closes f, which writes out what was buffered
SegmentFail ==
  /\ pc = "iter"
  /\ fs' = WriteThrough(fs, output_file, buf)
  /\ buf' = <<>>
  /\ Raise("EngineError")
  /\ trace' = Append(trace, "engine_failed")
  /\ UNCHANGED << config, audio_file, initial_prompt, fs0, segment,
                  yielded, engine_call, fmt_arg, fmt_ret >>

\* mutation of EndOfSegments: the extracted audio is treated as a
\* temporary file and removed when the transcript is complete
EndOfSegmentsCleansUp ==
  /\ pc = "iter"
  /\ fs' = [WriteThrough(fs, output_file, buf) EXCEPT ![audio_file] =
             IF audio_file # input_file THEN Absent ELSE @]
  /\ buf' = <<>>
  /\ pc' = "done"
  /\ trace' = Append(trace, "close")
  /\ UNCHANGED << config, audio_file, initial_prompt, error, fs0, segment,
                  yielded, engine_call, fmt_arg, fmt_ret >>

\* the generator is exhausted; leaving the with block closes f
EndOfSegments ==
  /\ pc = "iter"
  /\ fs' = WriteThrough(fs, output_file, buf)
  /\ buf' = <<>>
  /\ pc' = "done"
  /\ trace' = Append(trace, "close")
  /\ UNCHANGED << config, audio_file, initial_prompt, error, fs0, segment,
                  yielded, engine_call, fmt_arg, fmt_ret >>

\* mutation of WriteSegment: after the last line the loop goes back to
\* the engine
WriteSegmentRestarts ==
  /\ pc = "body"
  /\ buf' = buf \o FormatLine(segment[1], timestamp)
  /\ pc' = IF Len(yielded) = MaxSegments THEN "engine" ELSE "iter"
  /\ trace' = Append(trace, "write")
  /\ UNCHANGED << config, audio_file, initial_prompt, error, fs, fs0,
                  segment, yielded, engine_call, fmt_arg, fmt_ret >>

\* the loop body: one f.write per segment
WriteSegment ==
  /\ pc = "body"
  /\ buf' = buf \o FormatLine(segment[1], timestamp)
  /\ pc' = "iter"
  /\ trace' = Append(trace, "write")
  /\ UNCHANGED << config, audio_file, initial_prompt, error, fs, fs0,
                  segment, yielded, engine_call, fmt_arg, fmt_ret >>

\* f.write raises (disk full); the close on the way out may or may not
\* get the buffered text onto the disk
WriteFail ==
  /\ pc = "body"
  /\ fs' \in {fs, WriteThrough(fs, output_file, buf)}
  /\ buf' = <<>>
  /\ Raise("OutputError")
  /\ trace' = Append(trace, "write_failed")
  /\ UNCHANGED << config, audio_file, initial_prompt, fs0, segment,
                  yielded, engine_call, fmt_arg, fmt_ret >>

\* the io layer empties its buffer into the file whenever it sees fit
Flush ==
  /\ pc \in {"iter", "body"}
  /\ buf # <<>>
  /\ fs' = WriteThrough(fs, output_file, buf)
  /\ buf' = <<>>
  /\ UNCHANGED << config, audio_file, initial_prompt, pc, error, fs0,
                  segment, yielded, trace, engine_call, fmt_arg, fmt_ret >>

Next ==
  \/ StartConversion \/ PassThrough \/ ConvertOk \/ ConvertFail
  \/ SkipPrompt \/ OpenPrompt \/ OpenPromptFail \/ ReadPrompt
  \/ ReadPromptFail
  \/ EngineCall \/ EngineReturn \/ EngineFail
  \/ OpenOutput \/ OpenOutputFail
  \/ NextSegment \/ SegmentFail \/ EndOfSegments
  \/ WriteSegment \/ WriteFail \/ Flush

Spec == Init /\ [][Next]_vars

\* ------------------------------------------- format_timestamp on its own
\* a call of format_timestamp with a whole number of seconds
InitFmt ==
  /\ input_file = <<"a">>
  /\ output_file = <<"o", ".", "t", "x", "t">>
  /\ timestamp = TRUE
  /\ prompt_file = None
  /\ audio_file = None
  /\ initial_prompt = None
  /\ pc = "format"
  /\ error = None
  /\ fs = [p \in Paths |-> Absent]
  /\ fs0 = fs
  /\ buf = <<>>
  /\ segment = <<>>
  /\ yielded = <<>>
  /\ trace = <<>>
  /\ engine_call = <<>>
  /\ fmt_arg \in SecondCounts
  /\ fmt_ret = <<>>

FormatCall ==
  /\ pc = "format"
  /\ fmt_ret' = format_timestamp(10 * fmt_arg)
  /\ pc' = "formatted"
  /\ UNCHANGED << config, audio_file, initial_prompt, error, fs, fs0, buf,
                  segment, yielded, trace, engine_call, fmt_arg >>

NextFmt == FormatCall

SpecFmt == InitFmt /\ [][NextFmt]_vars

\* ----------------------------------------------- vocabulary of the claims
Count(seq, e) == Cardinality({i \in 1..Len(seq) : seq[i] = e})

Occurs(seq, e) == \E i \in 1..Len(seq) : seq[i] = e

IsPrefix(a, b) == Len(a) <= Len(b) /\ SubSeq(b, 1, Len(a)) = a

\* a occurs in b as a run of consecutive characters
IsInfix(a, b) ==
  \E i \in 0..(Len(b) - Len(a)) : SubSeq(b, i + 1, i + Len(a)) = a

RECURSIVE Repeat(_, _)
Repeat(e, n) == IF n = 0 THEN <<>> ELSE <<e>> \o Repeat(e, n - 1)

Aborted(e) == pc = "aborted" /\ error = e

\* the extension of the input, compared without regard to case, is one
\* of .mp4 .mkv .mov .avi
RecognisedVideo ==
  LET ext == Lower(splitext(input_file)[2])
  IN \/ ext = <<".", "m", "p", "4">> \/ ext = <<".", "m", "k", "v">>
     \/ ext = <<".", "m", "o", "v">> \/ ext = <<".", "a", "v", "i">>

\* base name of the input plus .mp3
ExtractionTarget == splitext(input_file)[1] \o <<".", "m", "p", "3">>

\* the line a segment is to appear as
ExpectedLine(seg) ==
  IF timestamp
  THEN <<"[">> \o format_timestamp(10 * TruncTenths(seg.start))
       \o <<" ", "-", ">", " ">>
       \o format_timestamp(10 * TruncTenths(seg.end))
       \o <<"]", " ">> \o seg.text \o <<"\n">>
  ELSE seg.text \o <<"\n">>

RECURSIVE ExpectedTranscript(_)
ExpectedTranscript(segs) ==
  IF segs = <<>> THEN <<>>
  ELSE ExpectedLine(Head(segs)) \o ExpectedTranscript(Tail(segs))

RECURSIVE TranscriptLength(_)
TranscriptLength(segs) ==
  IF segs = <<>> THEN 0
  ELSE (IF timestamp
        THEN 8 + Len(format_timestamp(Head(segs).start))
                + Len(format_timestamp(Head(segs).end))
                + Len(Head(segs).text)
        ELSE 1 + Len(Head(segs).text))
       + TranscriptLength(Tail(segs))

\* reading a decimal number
DigitValue(c) ==
  CHOOSE d \in 0..9 : DigitChar(d) = c

IsDigit(c) == \E d \in 0..9 : DigitChar(d) = c

RECURSIVE ParseInt(_)
ParseInt(s) ==
  IF s = <<>> THEN 0
  ELSE 10 * ParseInt(SubSeq(s, 1, Len(s) - 1)) + DigitValue(s[Len(s)])

AllDigits(s) == \A i \in 1..Len(s) : IsDigit(s[i])

\* the stage events of a run that writes n lines and finishes
ForwardSequence(n) ==
  (IF RecognisedVideo THEN <<"convert_begin", "convert_end">> ELSE <<>>)
  \o (IF PromptGiven(prompt_file)
      THEN <<"prompt_begin", "prompt_end">> ELSE <<>>)
  \o <<"engine_begin", "engine_end", "open">>
  \o Repeat("write", n) \o <<"close">>

Failures ==
  { "convert_failed", "prompt_failed", "engine_failed", "open_failed",
    "write_failed" }

\* the events of trace up to the failure that ended the run, if any
Completed ==
  IF trace # <<>> /\ trace[Len(trace)] \in Failures
  THEN SubSeq(trace, 1, Len(trace) - 1) ELSE trace

\* ----------------------------------------------------------------- claims
\* C1: when the engine fails, at the call or while yielding its k-th
\* segment, the output file does not end up holding a line of any segment
\* produced before the failure.
C1_NoPartialTranscript ==
  Aborted("EngineError") =>
    \A i \in 1..Len(yielded) :
      ~IsInfix(ExpectedLine(yielded[i]), fs[output_file])

\* C2 as stated: when reading the given prompt file fails, the engine has
\* not been invoked, the output file has not been opened, and the output
\* file is what it was before the run, for video and other inputs alike.
C2_PromptFailureLeavesOutput ==
  Aborted("PromptError") =>
    /\ engine_call = <<>>
    /\ ~Occurs(trace, "open")
    /\ fs[output_file] = fs0[output_file]

\* C2 amended: as above, except that the output file is only unchanged
\* when it is not the file the video was extracted to.
C2_PromptFailureLeavesOutputUnlessExtracted ==
  Aborted("PromptError") =>
    /\ engine_call = <<>>
    /\ ~Occurs(trace, "open")
    /\ (\/ Occurs(trace, "convert_end") /\ output_file = ExtractionTarget
        \/ fs[output_file] = fs0[output_file])

C2_Witness ==
  /\ Aborted("PromptError")
  /\ Occurs(trace, "convert_end")
  /\ Occurs(trace, "prompt_begin")
  /\ output_file # ExtractionTarget
  /\ fs0[output_file] = OldTranscript

\* C3 as stated: when the conversion tool exits non-zero for a video
\* input, it has been invoked once, the prompt file has not been read, the
\* engine has not been invoked and the output file is as it was.
C3_ConversionFailureStopsRun ==
  Occurs(trace, "convert_failed") =>
    /\ Aborted("CalledProcessError")
    /\ Count(trace, "convert_begin") = 1
    /\ ~Occurs(trace, "prompt_begin")
    /\ engine_call = <<>>
    /\ ~Occurs(trace, "open")
    /\ fs[output_file] = fs0[output_file]

\* C3 amended: as above, except that the output file is only known to be
\* as it was when it is not the file the tool was told to write.
C3_ConversionFailureStopsRunUnlessTarget ==
  Occurs(trace, "convert_failed") =>
    /\ Aborted("CalledProcessError")
    /\ Count(trace, "convert_begin") = 1
    /\ ~Occurs(trace, "prompt_begin")
    /\ engine_call = <<>>
    /\ ~Occurs(trace, "open")
    /\ (\/ output_file = ExtractionTarget
        \/ fs[output_file] = fs0[output_file])

C3_Witness ==
  /\ Aborted("CalledProcessError")
  /\ RecognisedVideo
  /\ PromptGiven(prompt_file)
  /\ fs[prompt_file] # Absent
  /\ output_file # ExtractionTarget
  /\ fs0[output_file] = Absent

\* C4: an input with a recognised video extension, in any letter case, is
\* converted exactly once and the engine is handed base name + .mp3; any
\* other input is never converted and the engine is handed the input path.
C4_Normalisation ==
  /\ RecognisedVideo =>
       /\ Count(trace, "convert_begin") <= 1
       /\ engine_call # <<>> =>
            /\ Count(trace, "convert_begin") = 1
            /\ engine_call[1].audio = ExtractionTarget
  /\ ~RecognisedVideo =>
       /\ Count(trace, "convert_begin") = 0
       /\ engine_call # <<>> => engine_call[1].audio = input_file

C4_Witness ==
  /\ engine_call # <<>>
  /\ RecognisedVideo
  /\ input_file # Lower(input_file)
  /\ engine_call[1].audio = <<"a", ".", "b", ".", "m", "p", "3">>

\* C5: for a whole second count s >= 0 the result of format_timestamp is
\* H:MM:SS with H of two or more digits, MM and SS of two digits in 0..59
\* and H*3600 + MM*60 + SS = s; other second counts give other strings.
C5_TimestampRoundTrip ==
  pc = "formatted" =>
    LET colons == {i \in 1..Len(fmt_ret) : fmt_ret[i] = ":"}
        c1 == CHOOSE i \in colons : \A j \in colons : i <= j
        c2 == CHOOSE i \in colons : \A j \in colons : j <= i
        H == SubSeq(fmt_ret, 1, c1 - 1)
        MM == SubSeq(fmt_ret, c1 + 1, c2 - 1)
        SS == SubSeq(fmt_ret, c2 + 1, Len(fmt_ret))
    IN /\ Cardinality(colons) = 2
       /\ Len(H) >= 2 /\ Len(MM) = 2 /\ Len(SS) = 2
       /\ AllDigits(H) /\ AllDigits(MM) /\ AllDigits(SS)
       /\ ParseInt(MM) \in 0..59
       /\ ParseInt(SS) \in 0..59
       /\ ParseInt(H) * 3600 + ParseInt(MM) * 60 + ParseInt(SS) = fmt_arg
       /\ \A other \in {0, fmt_arg + 1, fmt_arg + 60, fmt_arg + 360000} :
            other # fmt_arg => format_timestamp(10 * other) # fmt_ret

C5_Witness ==
  /\ pc = "formatted"
  /\ fmt_arg >= 360000
  /\ Len(fmt_ret) = 9

\* C6: after a successful run on n segments the output file is exactly
\* the n lines of the segments in the order they were yielded, each
\* '[' start ' -> ' end '] ' text with the times truncated to whole
\* seconds when the timestamp flag is set, and the text alone otherwise.
C6_TranscriptIsTheSegments ==
  pc = "done" =>
    /\ fs[output_file] = ExpectedTranscript(yielded)
    /\ Count(fs[output_file], "\n") = Len(yielded)
    /\ Count(trace, "write") = Len(yielded)

C6_Witness ==
  /\ pc = "done"
  /\ timestamp
  /\ Len(yielded) >= 2
  /\ yielded[1] # yielded[2]
  /\ yielded[1].start % 10 # 0

\* C7: when the output file held content before a successful run, none of
\* it is left: the file is as long as the new lines are and the old
\* content occurs nowhere in it.
C7_OldContentReplaced ==
  (pc = "done" /\ fs0[output_file] # Absent /\ fs0[output_file] # <<>>) =>
    /\ Len(fs[output_file]) = TranscriptLength(yielded)
    /\ ~IsInfix(fs0[output_file], fs[output_file])

C7_Witness ==
  /\ pc = "done"
  /\ fs0[output_file] = OldTranscript
  /\ yielded # <<>>
  /\ Len(fs[output_file]) < Len(OldTranscript)

\* C8: when the engine yields no segment the run ends without error and
\* the output file exists and is empty, whatever was there before.
C8_EmptyStreamEmptyFile ==
  /\ (pc = "done" /\ yielded = <<>>) =>
       /\ error = None
       /\ fs[output_file] # Absent
       /\ fs[output_file] = <<>>
  /\ (pc = "iter" /\ yielded = <<>>) => ENABLED EndOfSegments

C8_Witness ==
  /\ pc = "done"
  /\ yielded = <<>>
  /\ fs0[output_file] = OldTranscript

\* C9: the stage events of a run are a prefix of one forward sequence:
\* conversion (video only), prompt read (if given), engine call, open,
\* the writes, close; a failure is the last event of its run.
C9_StagesRunForward ==
  /\ IsPrefix(Completed, ForwardSequence(Count(trace, "write")))
  /\ \A i \in 1..Len(trace) : trace[i] \in Failures => i = Len(trace)

C9_Witness ==
  /\ pc = "done"
  /\ Occurs(trace, "convert_end")
  /\ Occurs(trace, "prompt_end")
  /\ Count(trace, "write") = MaxSegments

====
